---- MODULE Spec2Model ----
(***************************************************************************)
(* Round EL LSP: the language server (server.ts, listed in README.md) and  *)
(* the editor client (client/src/extension.ts).                            *)
(*                                                                         *)
(* JavaScript values are modelled as follows.  An optional value (a field  *)
(* that may be undefined) is a sequence of length 0 or 1.  A string is a   *)
(* TLA+ string, except document text, which is a sequence of one-character *)
(* strings so that offsets and ranges mean what they mean in the editor.   *)
(* A zero-based array is a sequence; At reads it the way JavaScript does   *)
(* (undefined outside the index range).                                    *)
(***************************************************************************)
EXTENDS Integers, Sequences, FiniteSets, TLC

VARIABLES
    phase,                        \* server lifecycle: created / initializing / running
    hasConfigurationCapability,   \* server.ts module variable
    hasWorkspaceFolderCapability, \* server.ts module variable
    configRegistered,             \* DidChangeConfiguration registered with the client
    globalSettings,               \* server.ts module variable
    documentSettings,             \* server.ts: the uris with cached settings
    documents,                    \* TextDocuments manager: uri -> optional text
    reply,                        \* the response to the message handled last
    offered,                      \* the completion list the editor holds
    activated,                    \* client: inactive / active / deactivated
    activeTextEditor,             \* window.activeTextEditor
    terminal,                     \* extension.ts module variable
    terminalsCreated,             \* calls of window.createTerminal
    sent,                         \* texts passed to terminal.sendText
    errors,                       \* messages passed to window.showErrorMessage
    runs                          \* invocations of round-el.runFile

serverVars == <<phase, hasConfigurationCapability, hasWorkspaceFolderCapability,
                configRegistered, globalSettings, documentSettings, documents,
                reply, offered>>
clientVars == <<activated, activeTextEditor, terminal, terminalsCreated, sent,
                errors, runs>>
vars == <<serverVars, clientVars>>

----------------------------------------------------------------------------
(* Bounds *)

\* longest document text, in characters
MaxLen == 13
\* invocations of the run command in one behaviour
MaxRuns == 3

----------------------------------------------------------------------------
(* JavaScript values *)

None == <<>>
Some(v) == <<v>>
Range(s) == {s[i] : i \in 1..Len(s)}

\* arr[i] of a zero-based JavaScript array: undefined outside the range
At(arr, i) == IF i \in 0..(Len(arr) - 1) THEN Some(arr[i + 1]) ELSE None

\* `${v}` of an optional string
Str(v) == IF v = None THEN "undefined" ELSE v[1]

----------------------------------------------------------------------------
(* The static catalogs *)

keywords ==
    <<"if", "else", "for", "while", "break", "continue", "return", "and", "or", "import">>

Func(n, c, d) == [name |-> n, category |-> c, documentation |-> d]

functions ==
    << Func("to_timestamp", "Date", "Convert to timestamp"),
       Func("to_unix_timestamp", "Date", "Convert to Unix timestamp"),
       Func("parse_date", "Date", "Parse date string"),
       Func("parse_local_datetime", "Date", "Parse local datetime"),
       Func("date_format", "Date", "Format date"),
       Func("print", "IO", "Print to stdout"),
       Func("printf", "IO", "Formatted print"),
       Func("println", "IO", "Print with newline"),
       Func("printi", "IO", "Print integer"),
       Func("interpolate", "IO", "String interpolation"),
       Func("rand", "Random", "Random float"),
       Func("randi", "Random", "Random integer"),
       Func("choose", "Random", "Choose random element"),
       Func("uuid", "Random", "Generate UUID"),
       Func("uuid32", "Random", "Generate 32-char UUID"),
       Func("uuid36", "Random", "Generate 36-char UUID"),
       Func("reverse", "String", "Reverse string or array") >>

\* A completion item; data, detail, documentation and insertText are optional.
Item(l, k, d, it) ==
    [label |-> l, kind |-> k, data |-> d, detail |-> None,
     documentation |-> None, insertText |-> it]

TextItem(s) == Item(s, "Text", None, Some(s))

brackets ==
    << TextItem("("), TextItem(")"), TextItem("{"), TextItem("}"),
       TextItem("["), TextItem("]") >>

quotes == << TextItem("\""), TextItem("'") >>

----------------------------------------------------------------------------
(* The partial token before the cursor and the symbols of a document, as    *)
(* the design describes them (sections 4.2 and 4.3); the handlers below do  *)
(* not compute them.                                                        *)

IdentChars ==
    {"a", "b", "c", "d", "e", "f", "g", "h", "i", "j", "k", "l", "m", "n", "o",
     "p", "q", "r", "s", "t", "u", "v", "w", "x", "y", "z", "_"}

RECURSIVE Join(_)
\* the string a sequence of characters spells
Join(chars) == IF chars = <<>> THEN "" ELSE chars[1] \o Join(Tail(chars))

\* the characters of a keyword
Spell(keyword) ==
    CASE keyword = "if" -> <<"i", "f">>
      [] keyword = "else" -> <<"e", "l", "s", "e">>
      [] keyword = "for" -> <<"f", "o", "r">>
      [] keyword = "while" -> <<"w", "h", "i", "l", "e">>
      [] keyword = "break" -> <<"b", "r", "e", "a", "k">>
      [] keyword = "continue" -> <<"c", "o", "n", "t", "i", "n", "u", "e">>
      [] keyword = "return" -> <<"r", "e", "t", "u", "r", "n">>
      [] keyword = "and" -> <<"a", "n", "d">>
      [] keyword = "or" -> <<"o", "r">>
      [] keyword = "import" -> <<"i", "m", "p", "o", "r", "t">>

StartsWith(chars, prefix) ==
    Len(prefix) <= Len(chars) /\ SubSeq(chars, 1, Len(prefix)) = prefix

RECURSIVE identRun(_, _)
\* how many identifier characters end at offset pos
identRun(text, pos) ==
    IF pos >= 1 /\ text[pos] \in IdentChars THEN 1 + identRun(text, pos - 1) ELSE 0

\* the filter prefix: the identifier characters just before the cursor
PartialToken(text, position) ==
    LET pos == IF position > Len(text) THEN Len(text) ELSE position
    IN  SubSeq(text, pos - identRun(text, pos) + 1, pos)

\* the filter prefix of a request; a uri with no open document has no text
PrefixOf(params) ==
    IF documents[params.uri] = None THEN <<>>
    ELSE PartialToken(documents[params.uri][1], params.position)

\* the identifiers of a text: its maximal runs of identifier characters
Words(text) ==
    { Join(SubSeq(text, i, j)) : <<i, j>> \in
        { ij \in (1..Len(text)) \X (1..Len(text)) :
            /\ ij[1] <= ij[2]
            /\ \A k \in ij[1]..ij[2] : text[k] \in IdentChars
            /\ (ij[1] = 1 \/ text[ij[1] - 1] \notin IdentChars)
            /\ (ij[2] = Len(text) \/ text[ij[2] + 1] \notin IdentChars) } }

\* the symbols a document declares: its identifiers that are no keywords
LocalSymbols(text) == Words(text) \ Range(keywords)

----------------------------------------------------------------------------
(* connection.onCompletion *)

keywordItemOneBased(keyword, index) ==
    Item(keyword, "Keyword", Some([type |-> "keyword", id |-> index + 1]), None)

\* the callback of keywords.map: index is the zero-based array index
keywordItem(keyword, index) ==
    Item(keyword, "Keyword", Some([type |-> "keyword", id |-> index]), None)

functionItemEager(func, index) ==
    [Item(func.name, "Function", Some([type |-> "function", id |-> index]), None)
        EXCEPT !.detail = Some(func.category \o ": " \o func.name)]

\* the callback of functions.map
functionItem(func, index) ==
    Item(func.name, "Function", Some([type |-> "function", id |-> index]), None)

keywordItems == [i \in 1..Len(keywords) |-> keywordItem(keywords[i], i - 1)]

functionItems == [i \in 1..Len(functions) |-> functionItem(functions[i], i - 1)]

onCompletionKeywordsFirst(textDocumentPosition) ==
    keywordItems \o functionItems \o brackets \o quotes

onCompletionOpenOnly(textDocumentPosition) ==
    IF documents[textDocumentPosition.uri] = None THEN <<>>
    ELSE functionItems \o keywordItems \o brackets \o quotes

onCompletionFiltered(textDocumentPosition) ==
    functionItems
        \o SelectSeq(keywordItems,
                     LAMBDA it : StartsWith(Spell(it.label), PrefixOf(textDocumentPosition)))
        \o brackets \o quotes

\* The handler: the request's document and position are not read.
onCompletion(textDocumentPosition) ==
    functionItems \o keywordItems \o brackets \o quotes

----------------------------------------------------------------------------
(* connection.onCompletionResolve *)

StringDoc(s) == [kind |-> "string", value |-> s]
MarkdownDoc(s) == [kind |-> "markdown", value |-> s]

keywordDetailAppend(item, keyword) ==
    (IF item.detail = None THEN "" ELSE item.detail[1]) \o "Keyword: " \o Str(keyword)

\* item.detail = `Keyword: ${keyword}`
keywordDetail(item, keyword) == "Keyword: " \o Str(keyword)

\* the switch over the keyword: the documentation the item has afterwards
keywordDocumentation(item, keyword) ==
    CASE keyword \in {Some("if"), Some("else")} -> Some(StringDoc("Conditional statement"))
      [] keyword \in {Some("for"), Some("while")} -> Some(StringDoc("Loop statement"))
      [] keyword = Some("break") -> Some(StringDoc("Exit from loop"))
      [] keyword = Some("continue") -> Some(StringDoc("Skip to next iteration"))
      [] keyword = Some("return") -> Some(StringDoc("Return from function"))
      [] keyword \in {Some("and"), Some("or")} -> Some(StringDoc("Logical operator"))
      [] keyword = Some("import") -> Some(StringDoc("Import statement"))
      [] OTHER -> item.documentation

Returned(item) == [threw |-> FALSE, item |-> item]
\* a TypeError leaves the handler before any field is assigned
Threw(item) == [threw |-> TRUE, item |-> item]

\* The handler.  Reading a property of undefined (item.data missing, or
\* functions[data.id] outside the array) throws a TypeError.
onCompletionResolve(item) ==
    IF item.data = None THEN Threw(item)
    ELSE LET data == item.data[1] IN
        IF data.type = "keyword" THEN
            LET keyword == At(keywords, data.id) IN
            Returned([item EXCEPT
                !.detail = Some(keywordDetail(item, keyword)),
                !.documentation = keywordDocumentation(item, keyword)])
        ELSE IF data.type = "function" THEN
            LET func == At(functions, data.id) IN
            IF func = None THEN Threw(item)
            ELSE Returned([item EXCEPT
                !.detail = Some(func[1].category \o ": " \o func[1].name),
                !.documentation = Some(MarkdownDoc(func[1].documentation))])
        ELSE IF data.type = "keyword" THEN
            Returned([item EXCEPT
                !.documentation = Some(MarkdownDoc(item.documentation))])
        ELSE Returned(item)

----------------------------------------------------------------------------
(* connection.onInitialize *)

\* !!(capabilities.workspace && !!capabilities.workspace.configuration)
configurationCapability(capabilities) ==
    capabilities.workspace # None /\ capabilities.workspace[1].configuration

workspaceFolderCapabilitySlip(capabilities) ==
    capabilities.workspace # None /\ capabilities.workspace[1].configuration

\* !!(capabilities.workspace && !!capabilities.workspace.workspaceFolders)
workspaceFolderCapability(capabilities) ==
    capabilities.workspace # None /\ capabilities.workspace[1].workspaceFolders

\* the InitializeResult, given the value of hasWorkspaceFolderCapability
initializeResult(hasWorkspaceFolder) ==
    [capabilities |->
        [textDocumentSync |-> "Incremental",
         completionProvider |-> [resolveProvider |-> TRUE],
         workspace |-> IF hasWorkspaceFolder
                       THEN Some([workspaceFolders |-> [supported |-> TRUE]])
                       ELSE None]]

\* the capability sets a client may send
ClientCapabilities ==
    {[workspace |-> None]} \cup
    {[workspace |-> Some([configuration |-> c, workspaceFolders |-> w])] :
        c \in BOOLEAN, w \in BOOLEAN}

----------------------------------------------------------------------------
(* The text document manager (documents.listen) and the messages *)

Uris == {"file:///a.rel", "file:///b.rel"}

EmptyText == <<>>
\* "if x { "
BlockText == <<"i", "f", " ", "x", " ", "{", " ">>
\* "return"
ReturnText == <<"r", "e", "t", "u", "r", "n">>

\* the texts a didOpen notification carries
InitialTexts == {EmptyText, BlockText}

\* The incremental content changes a didChange notification carries: the
\* word "return" typed after "if x { ", and its last three characters deleted.
ContentChanges ==
    { [start |-> Len(BlockText), end |-> Len(BlockText), text |-> ReturnText],
      [start |-> Len(BlockText) + 3, end |-> Len(BlockText) + 6, text |-> <<>>] }

\* TextDocument.update with one ranged change
applyChange(text, change) ==
    SubSeq(text, 1, change.start) \o change.text
        \o SubSeq(text, change.end + 1, Len(text))

\* the positions a completion request may name (one line: the character offset)
Positions == 0..MaxLen

\* change.settings.languageServerExample of a configuration notification
defaultSettings == [maxNumberOfProblems |-> 1000]
ExampleSettings == {None, Some([maxNumberOfProblems |-> 100])}

NoReply == [method |-> "none"]

\* what the connection answers when a handler returned or threw
Response(method, params, threw, result) ==
    [method |-> method, params |-> params,
     error |-> IF threw THEN Some("InternalError") ELSE None,
     result |-> IF threw THEN None ELSE Some(result)]

\* stale or foreign items an editor may send to resolve: ids outside the
\* catalogs' index ranges, and a type tag the server does not know
StaleItems ==
    { Item("goto", "Keyword", Some([type |-> "keyword", id |-> Len(keywords)]), None),
      Item("goto", "Keyword", Some([type |-> "keyword", id |-> -1]), None),
      Item("now", "Function", Some([type |-> "function", id |-> Len(functions)]), None),
      Item("now", "Function", Some([type |-> "function", id |-> -1]), None),
      Item("x", "Variable", Some([type |-> "variable", id |-> 0]), None) }

\* the items a resolve request may carry: one of the list the editor holds, a
\* stale one, or the item the previous resolve returned
ResolveInputs ==
    Range(offered) \cup StaleItems \cup
    (IF reply.method = "resolve" /\ reply.error = None THEN {reply.result[1]} ELSE {})

Init ==
    /\ phase = "created"
    /\ hasConfigurationCapability = FALSE
    /\ hasWorkspaceFolderCapability = FALSE
    /\ configRegistered = FALSE
    /\ globalSettings = defaultSettings
    /\ documentSettings = {}
    /\ documents = [u \in Uris |-> None]
    /\ reply = NoReply
    /\ offered = <<>>
    /\ activated = "inactive"
    /\ activeTextEditor = None
    /\ terminal = None
    /\ terminalsCreated = 0
    /\ sent = <<>>
    /\ errors = <<>>
    /\ runs = 0

Initialize ==
    /\ phase = "created"
    /\ \E capabilities \in ClientCapabilities :
        /\ hasConfigurationCapability' = configurationCapability(capabilities)
        /\ hasWorkspaceFolderCapability' = workspaceFolderCapability(capabilities)
        /\ reply' = Response("initialize", capabilities, FALSE,
                        initializeResult(hasWorkspaceFolderCapability'))
    /\ phase' = "initializing"
    /\ UNCHANGED <<configRegistered, globalSettings, documentSettings, documents,
                   offered, clientVars>>

Initialized ==
    /\ phase = "initializing"
    /\ phase' = "running"
    /\ configRegistered' = hasConfigurationCapability
    /\ reply' = NoReply
    /\ UNCHANGED <<hasConfigurationCapability, hasWorkspaceFolderCapability,
                   globalSettings, documentSettings, documents, offered, clientVars>>

DidChangeConfiguration ==
    /\ phase = "running"
    /\ \E settings \in ExampleSettings :
        IF hasConfigurationCapability
        THEN /\ documentSettings' = {}
             /\ UNCHANGED globalSettings
        ELSE /\ globalSettings' = (IF settings # None THEN settings[1] ELSE defaultSettings)
             /\ UNCHANGED documentSettings
    /\ reply' = NoReply
    /\ UNCHANGED <<phase, hasConfigurationCapability, hasWorkspaceFolderCapability,
                   configRegistered, documents, offered, clientVars>>

DidOpen ==
    /\ phase = "running"
    /\ \E uri \in Uris, text \in InitialTexts :
        documents' = [documents EXCEPT ![uri] = Some(text)]
    /\ reply' = NoReply
    /\ UNCHANGED <<phase, hasConfigurationCapability, hasWorkspaceFolderCapability,
                   configRegistered, globalSettings, documentSettings, offered,
                   clientVars>>

DidChange ==
    /\ phase = "running"
    /\ \E uri \in Uris, change \in ContentChanges :
        /\ documents[uri] # None
        /\ change.end <= Len(documents[uri][1])
        /\ Len(applyChange(documents[uri][1], change)) <= MaxLen
        /\ documents' = [documents EXCEPT
                            ![uri] = Some(applyChange(documents[uri][1], change))]
    /\ reply' = NoReply
    /\ UNCHANGED <<phase, hasConfigurationCapability, hasWorkspaceFolderCapability,
                   configRegistered, globalSettings, documentSettings, offered,
                   clientVars>>

DidClose ==
    /\ phase = "running"
    /\ \E uri \in Uris :
        /\ documents[uri] # None
        /\ documents' = [documents EXCEPT ![uri] = None]
    /\ reply' = NoReply
    /\ UNCHANGED <<phase, hasConfigurationCapability, hasWorkspaceFolderCapability,
                   configRegistered, globalSettings, documentSettings, offered,
                   clientVars>>

Completion ==
    /\ phase = "running"
    /\ \E uri \in Uris, position \in Positions :
        LET params == [uri |-> uri, position |-> position] IN
        /\ reply' = Response("completion", params, FALSE, onCompletion(params))
        /\ offered' = onCompletion(params)
    /\ UNCHANGED <<phase, hasConfigurationCapability, hasWorkspaceFolderCapability,
                   configRegistered, globalSettings, documentSettings, documents,
                   clientVars>>

CompletionResolve ==
    /\ phase = "running"
    /\ \E item \in ResolveInputs :
        LET r == onCompletionResolve(item) IN
        reply' = Response("resolve", item, r.threw, r.item)
    /\ UNCHANGED <<phase, hasConfigurationCapability, hasWorkspaceFolderCapability,
                   configRegistered, globalSettings, documentSettings, documents,
                   offered, clientVars>>

Next ==
    \/ Initialize
    \/ Initialized
    \/ DidChangeConfiguration
    \/ DidOpen
    \/ DidChange
    \/ DidClose
    \/ Completion
    \/ CompletionResolve

Spec == Init /\ [][Next]_vars

----------------------------------------------------------------------------
(* The editor client: client/src/extension.ts *)

Editor(languageId, isUntitled, scheme, fileName) ==
    [document |-> [languageId |-> languageId, isUntitled |-> isUntitled,
                   uri |-> [scheme |-> scheme], fileName |-> fileName]]

\* the editors the user may bring to the front
Editors ==
    { Editor(l, sch = "untitled", sch, f) :
        l \in {"round-el", "plaintext"},
        sch \in {"file", "untitled", "git"},
        f \in {"/w/a.rel", "/w/b.rel"} }

needsTerminalAlways == TRUE

\* if (!terminal)
needsTerminal == terminal = None

\* `rel "${filePath}"`
relCommand(filePath) == "rel \"" \o filePath \o "\""

runRel ==
    IF activeTextEditor = None THEN
        /\ errors' = Append(errors, "No active editor")
        /\ UNCHANGED <<terminal, terminalsCreated, sent>>
    ELSE LET document == activeTextEditor[1].document IN
        IF document.languageId # "round-el" THEN
            /\ errors' = Append(errors, "Current file is not a Round El file")
            /\ UNCHANGED <<terminal, terminalsCreated, sent>>
        ELSE IF ~document.isUntitled /\ document.uri.scheme = "file" THEN
            /\ IF needsTerminal
               THEN /\ terminal' = Some("Round El")
                    /\ terminalsCreated' = terminalsCreated + 1
               ELSE UNCHANGED <<terminal, terminalsCreated>>
            /\ sent' = Append(sent, relCommand(document.fileName))
            /\ UNCHANGED errors
        ELSE UNCHANGED <<terminal, terminalsCreated, sent, errors>>

Activate ==
    /\ activated = "inactive"
    /\ activated' = "active"
    /\ UNCHANGED <<activeTextEditor, terminal, terminalsCreated, sent, errors, runs,
                   serverVars>>

\* the user changes the editor in front (or closes the last one)
ChangeActiveEditor ==
    /\ \E e \in {None} \cup {Some(x) : x \in Editors} :
        /\ e # activeTextEditor
        /\ activeTextEditor' = e
    /\ UNCHANGED <<activated, terminal, terminalsCreated, sent, errors, runs,
                   serverVars>>

\* the round-el.runFile command, registered by activate
RunFile ==
    /\ activated = "active"
    /\ runs < MaxRuns
    /\ runs' = runs + 1
    /\ runRel
    /\ UNCHANGED <<activated, activeTextEditor, serverVars>>

Deactivate ==
    /\ activated = "active"
    /\ activated' = "deactivated"
    /\ UNCHANGED <<activeTextEditor, terminal, terminalsCreated, sent, errors, runs,
                   serverVars>>

NextClient ==
    \/ Activate
    \/ ChangeActiveEditor
    \/ RunFile
    \/ Deactivate

SpecClient == Init /\ [][NextClient]_vars

----------------------------------------------------------------------------
(* Properties *)

IsReply(method) == reply.method = method
Result == reply.result[1]
LabelsOf(items) == [i \in 1..Len(items) |-> items[i].label]
KeywordItemsOf(items) == SelectSeq(items, LAMBDA it : it.kind = "Keyword")
CatalogLabels ==
    [i \in 1..Len(functions) |-> functions[i].name] \o keywords
        \o LabelsOf(brackets) \o LabelsOf(quotes)
NoDuplicates(items) ==
    \A i, j \in 1..Len(items) :
        (items[i].label = items[j].label /\ items[i].kind = items[j].kind) => i = j
\* every item of kind k1 stands before every item of kind k2
KindBefore(items, k1, k2) ==
    \A i, j \in 1..Len(items) : (items[i].kind = k1 /\ items[j].kind = k2) => i < j
ToTimestampItem(it) == it.label = "to_timestamp" /\ it.kind = "Function"
EmptyPrefixRequest == IsReply("completion") /\ PrefixOf(reply.params) = <<>>
\* the document holds `if x { return` and the cursor stands after `ret`
ReturnScenario ==
    /\ IsReply("completion")
    /\ documents[reply.params.uri] = Some(BlockText \o ReturnText)
    /\ reply.params.position = Len(BlockText) + 3
    /\ Join(PrefixOf(reply.params)) = "ret"
StaleData(item) ==
    /\ item.data # None
    /\ \/ item.data[1].type = "keyword" /\ item.data[1].id \notin 0..(Len(keywords) - 1)
       \/ item.data[1].type = "function" /\ item.data[1].id \notin 0..(Len(functions) - 1)

\* C1: whatever capabilities the client passes to initialize, the result
\* advertises completion with resolveProvider = true and incremental text
\* document sync, and it advertises workspace-folder support exactly when the
\* client's capabilities declare workspace.workspaceFolders.
C1_InitializeResult ==
    IsReply("initialize") =>
        /\ reply.error = None
        /\ Result.capabilities.completionProvider.resolveProvider = TRUE
        /\ Result.capabilities.textDocumentSync = "Incremental"
        /\ (Result.capabilities.workspace = Some([workspaceFolders |-> [supported |-> TRUE]]))
            <=> (reply.params.workspace # None /\ reply.params.workspace[1].workspaceFolders)
        /\ (Result.capabilities.workspace = None)
            <=> ~(reply.params.workspace # None /\ reply.params.workspace[1].workspaceFolders)

C1_Witness ==
    /\ IsReply("initialize")
    /\ reply.params.workspace # None
    /\ reply.params.workspace[1].workspaceFolders
    /\ ~reply.params.workspace[1].configuration
    /\ Result.capabilities.workspace # None

\* C2 as stated: a completion request with an empty prefix returns the
\* deduplicated union of the document's local symbols, the builtins, the
\* keywords and the bracket/quote items, local symbols first, then builtins,
\* then keywords, then the bracket/quote items.
C2_Original ==
    EmptyPrefixRequest =>
        LET locals == IF documents[reply.params.uri] = None THEN {}
                      ELSE LocalSymbols(documents[reply.params.uri][1])
        IN  /\ reply.error = None
            /\ NoDuplicates(Result)
            /\ Range(LabelsOf(Result)) = locals \cup Range(CatalogLabels)
            /\ KindBefore(Result, "Variable", "Function")
            /\ KindBefore(Result, "Function", "Keyword")
            /\ KindBefore(Result, "Keyword", "Text")

\* C2 as amended: a completion request with an empty prefix returns the
\* deduplicated union of the builtins, the keywords and the bracket/quote
\* items and nothing else (no symbol of the document is in it), builtins
\* before keywords before the bracket/quote items, for every uri and position
\* and whatever notifications came before.
C2_CatalogUnion ==
    EmptyPrefixRequest =>
        /\ reply.error = None
        /\ NoDuplicates(Result)
        /\ Range(LabelsOf(Result)) = Range(CatalogLabels)
        /\ Len(Result) = Len(CatalogLabels)
        /\ \A i \in 1..Len(Result) : Result[i].kind \in {"Function", "Keyword", "Text"}
        /\ KindBefore(Result, "Function", "Keyword")
        /\ KindBefore(Result, "Keyword", "Text")
        /\ KindBefore(Result, "Function", "Text")

C2_Witness ==
    /\ EmptyPrefixRequest
    /\ documents[reply.params.uri] # None
    /\ "x" \in LocalSymbols(documents[reply.params.uri][1])
    /\ globalSettings # defaultSettings
    /\ Len(Result) = Len(CatalogLabels)

\* C3: no item of a completion list carries a detail or a documentation, the
\* built-in to_timestamp is in every completion list, and its category Date
\* appears only in the detail of the item resolve returns for it.
C3_LazyDetail ==
    /\ IsReply("completion") =>
        /\ \A i \in 1..Len(Result) :
            Result[i].detail = None /\ Result[i].documentation = None
        /\ \E i \in 1..Len(Result) : ToTimestampItem(Result[i])
    /\ \A i \in 1..Len(offered) :
        offered[i].detail = None /\ offered[i].documentation = None
    /\ (IsReply("resolve") /\ reply.params \in Range(offered)
            /\ ToTimestampItem(reply.params)) =>
        /\ reply.error = None
        /\ Result.detail = Some("Date: to_timestamp")

C3_Witness ==
    /\ IsReply("resolve")
    /\ reply.params \in Range(offered)
    /\ ToTimestampItem(reply.params)
    /\ reply.params.detail = None
    /\ Result.detail = Some("Date: to_timestamp")

\* C4: for every keyword or function item of the list the editor got from
\* completion, resolve attaches the detail and documentation of the catalog
\* entry whose name is the item's label, whatever open, change and close
\* notifications came between the two requests.
C4_ResolveRelocates ==
    (IsReply("resolve") /\ reply.params \in Range(offered)
        /\ reply.params.kind \in {"Keyword", "Function"}) =>
        /\ reply.error = None
        /\ Result.label = reply.params.label
        /\ reply.params.kind = "Keyword" =>
            /\ reply.params.label \in Range(keywords)
            /\ Result.detail = Some("Keyword: " \o reply.params.label)
            /\ Result.documentation =
                    keywordDocumentation(reply.params, Some(reply.params.label))
            /\ Result.documentation # None
        /\ reply.params.kind = "Function" =>
            \E i \in 1..Len(functions) :
                /\ functions[i].name = reply.params.label
                /\ Result.detail = Some(functions[i].category \o ": " \o functions[i].name)
                /\ Result.documentation = Some(MarkdownDoc(functions[i].documentation))

C4_Witness ==
    /\ IsReply("resolve")
    /\ reply.params \in Range(offered)
    /\ reply.params.label = "return"
    /\ Result.documentation = Some(StringDoc("Return from function"))
    /\ \E u \in Uris : documents[u] = Some(BlockText \o ReturnText)

\* C5: resolve is idempotent: resolving the item a resolve request returned
\* returns that same item (label, kind, data, detail and documentation).
C5_ResolveIdempotent ==
    (IsReply("resolve") /\ reply.error = None) =>
        onCompletionResolve(Result) = Returned(Result)

C5_Witness ==
    /\ IsReply("resolve")
    /\ reply.error = None
    /\ reply.params.detail # None
    /\ reply.params.kind = "Keyword"
    /\ Result = reply.params

\* C6: resolving an item whose data.id lies outside its catalog's index range
\* returns the item unmodified and does not fail.
C6_StaleUnmodified ==
    (IsReply("resolve") /\ StaleData(reply.params)) =>
        /\ reply.error = None
        /\ Result = reply.params

\* C7 as stated: a completion request against a uri with no open document
\* fails with DocumentNotFound and returns no list.
C7_Original ==
    (IsReply("completion") /\ documents[reply.params.uri] = None) =>
        /\ reply.error = Some("DocumentNotFound")
        /\ reply.result = None

\* C7 as amended: a completion request against a uri with no open document
\* (never opened, or closed) does not fail: it returns, without an error, the
\* same static list as for an open document, the whole catalog in catalog order.
C7_ClosedUriGetsCatalog ==
    (IsReply("completion") /\ documents[reply.params.uri] = None) =>
        /\ reply.error = None
        /\ reply.result # None
        /\ LabelsOf(Result) = CatalogLabels

C7_Witness ==
    /\ IsReply("completion")
    /\ documents[reply.params.uri] = None
    /\ \E u \in Uris : documents[u] # None
    /\ reply.error = None
    /\ Len(Result) = Len(CatalogLabels)

\* C8 as stated: with `if x { return` in the document and the cursor after
\* `ret`, the keyword `return` is the first and only keyword of the list and
\* the keyword `if` is not in it.
C8_Original ==
    ReturnScenario =>
        /\ LabelsOf(KeywordItemsOf(Result)) = <<"return">>
        /\ "if" \notin Range(LabelsOf(KeywordItemsOf(Result)))

\* C8 as amended: completion does not filter the keyword catalog by the
\* partial token: with `if x { return` in the document and the cursor after
\* `ret`, the list holds every keyword in catalog order, so it contains the
\* keyword `return` and it also contains the keyword `if`, which is the first
\* keyword of the list.
C8_NoPrefixFilter ==
    ReturnScenario =>
        /\ reply.error = None
        /\ LabelsOf(KeywordItemsOf(Result)) = keywords
        /\ "return" \in Range(LabelsOf(KeywordItemsOf(Result)))
        /\ LabelsOf(KeywordItemsOf(Result))[1] = "if"

C8_Witness ==
    /\ ReturnScenario
    /\ \E i \in 1..Len(Result) : Result[i].label = "if" /\ Result[i].kind = "Keyword"

\* C9: resolve returns an item, without raising an error, for every item of
\* the list completion returned, the bracket and quote items included.
C9_ResolveNeverRaises ==
    (IsReply("resolve") /\ reply.params \in Range(offered)) =>
        /\ reply.error = None
        /\ reply.result # None

\* C10: over any sequence of round-el.runFile invocations after activate the
\* client creates at most one terminal, created by the first qualifying
\* invocation and reused by the later ones; it sends `rel "<file>"` to it only
\* when the active editor's document has language id round-el, is not untitled
\* and has uri scheme file; an invocation with no active editor or with
\* another language shows an error message and neither creates a terminal nor
\* sends text.
C10_RunFile ==
    /\ [](terminalsCreated <= 1 /\ (terminalsCreated = 1 <=> terminal # None))
    /\ [][ runs' # runs =>
            LET qualifies ==
                    /\ activeTextEditor # None
                    /\ activeTextEditor[1].document.languageId = "round-el"
                    /\ ~activeTextEditor[1].document.isUntitled
                    /\ activeTextEditor[1].document.uri.scheme = "file"
                rejected ==
                    \/ activeTextEditor = None
                    \/ activeTextEditor[1].document.languageId # "round-el"
            IN  /\ activated = "active"
                /\ qualifies =>
                    /\ terminal' = Some("Round El")
                    /\ terminalsCreated' = (IF terminal = None THEN 1 ELSE terminalsCreated)
                    /\ sent' = Append(sent,
                            "rel \"" \o activeTextEditor[1].document.fileName \o "\"")
                    /\ errors' = errors
                /\ ~qualifies =>
                    /\ terminal' = terminal
                    /\ terminalsCreated' = terminalsCreated
                    /\ sent' = sent
                /\ rejected => Len(errors') = Len(errors) + 1
                /\ ~rejected => errors' = errors ]_vars

C10_Witness ==
    /\ Len(sent) >= 2
    /\ Len(errors) >= 1
    /\ terminalsCreated = 1
    /\ terminal # None

====
